---- MODULE Spec2Model ----
(***************************************************************************)
(* Dealflow pipeline (pipeline.py): price parsing, hit normalisation,      *)
(* de-duplication by url, feature scoring and ranking.                     *)
(*                                                                         *)
(* Python values are tagged tuples: None, <<"num", n, d>> (the rational    *)
(* n/d, d > 0, in lowest terms), <<"str", s>>.  Texts that are parsed      *)
(* character by character are sequences of one-character strings.  A dict  *)
(* is a record; a key the dict lacks is a field the record lacks.          *)
(***************************************************************************)
EXTENDS Integers, Sequences, FiniteSets, TLC

VARIABLES pc, now, tz, text, parsed, si, raw, deals, cfg, out, outAt, first

vars == <<pc, now, tz, text, parsed, si, raw, deals, cfg, out, outAt, first>>

(***************************************************************************)
(* Bounds                                                                  *)
(***************************************************************************)
MaxLen == 4        \* longest text handed to the price parser
MaxHits == 3       \* search results collected in one run
MaxDeals == 3      \* longest deal list handed directly to score_deals
MaxTicks == 2      \* clock ticks that pass during a behaviour

TicksPerDay == 2   \* one tick is twelve hours

(***************************************************************************)
(* Python values                                                           *)
(***************************************************************************)
None == <<"None">>

Str(s) == <<"str", s>>

Abs(n) == IF n < 0 THEN -n ELSE n

RECURSIVE Gcd(_, _)
Gcd(a, b) == IF b = 0 THEN a ELSE Gcd(b, a % b)

\* the rational n/d (d # 0) in lowest terms with a positive denominator
Rat(n, d) ==
    LET g == Gcd(Abs(n), Abs(d))
        s == IF d < 0 THEN -1 ELSE 1
    IN  <<"num", (s * n) \div g, (s * d) \div g>>

Num(n) == <<"num", n, 1>>

IsNum(v) == v[1] = "num"

RAdd(a, b) == Rat(a[2] * b[3] + b[2] * a[3], a[3] * b[3])

RSub(a, b) == Rat(a[2] * b[3] - b[2] * a[3], a[3] * b[3])

RMul(a, b) == Rat(a[2] * b[2], a[3] * b[3])

\* a / b; the callers guard b # 0 as the code does
RDiv(a, b) == Rat(a[2] * b[3], a[3] * b[2])

RLess(a, b) == a[2] * b[3] < b[2] * a[3]

\* min(a, b) and max(a, b) of Python: the first argument wins a tie
RMin(a, b) == IF RLess(b, a) THEN b ELSE a

RMax(a, b) == IF RLess(a, b) THEN b ELSE a

\* Python truthiness of None and of numbers, as in "x or 0"
Truthy(v) == IF IsNum(v) THEN v[2] # 0 ELSE v # None

OrZero(v) == IF Truthy(v) THEN v ELSE Num(0)

\* round(x, 3), in thousandths: nearest, ties to even
Round3(x) ==
    LET n == x[2] * 1000
        d == x[3]
        q == n \div d
        r == n % d
    IN  IF 2 * r < d THEN q
        ELSE IF 2 * r > d THEN q + 1
        ELSE IF q % 2 = 0 THEN q ELSE q + 1

\* a multiple of 1/1000 in thousandths (the unit the model keeps output
\* numbers in), unrounded
Thousandths(x) == (x[2] * 1000) \div x[3]

\* dict.get(k) and dict.get(k, default)
Get(d, k) == IF k \in DOMAIN d THEN d[k] ELSE None

GetD(d, k, dflt) == IF k \in DOMAIN d THEN d[k] ELSE dflt

(***************************************************************************)
(* Characters and texts                                                    *)
(***************************************************************************)
Digits == {"0", "1", "2", "3", "4", "5", "6", "7", "8", "9"}

DigitVal(c) ==
    CASE c = "0" -> 0 [] c = "1" -> 1 [] c = "2" -> 2 [] c = "3" -> 3
      [] c = "4" -> 4 [] c = "5" -> 5 [] c = "6" -> 6 [] c = "7" -> 7
      [] c = "8" -> 8 [] c = "9" -> 9

\* str.lower() on one character of the alphabet in use
LowerChar(c) ==
    CASE c = "A" -> "a" [] c = "U" -> "u" [] c = "D" -> "d"
      [] c = "M" -> "m" [] c = "K" -> "k" [] OTHER -> c

LowerText(s) == [i \in 1..Len(s) |-> LowerChar(s[i])]

IsNotComma(c) == c # ","

IsNotSpace(c) == c # " "

\* s.replace(",", "").replace(" ", "")
StripSeparators(s) == SelectSeq(SelectSeq(s, IsNotComma), IsNotSpace)

RECURSIVE Pow10(_)
Pow10(k) == IF k = 0 THEN 1 ELSE 10 * Pow10(k - 1)

\* the end of the longest run of characters of cls that starts at i
RECURSIVE RunEnd(_, _, _)
RunEnd(s, i, cls) ==
    IF i + 1 <= Len(s) /\ s[i + 1] \in cls THEN RunEnd(s, i + 1, cls) ELSE i

\* the least index >= i whose character is in cls, or 0
RECURSIVE FirstIn(_, _, _)
FirstIn(s, i, cls) ==
    IF i > Len(s) THEN 0
    ELSE IF s[i] \in cls THEN i
    ELSE FirstIn(s, i + 1, cls)

IsDot(c) == c = "."

IsDigit(c) == c \in Digits

RECURSIVE DigitsValue(_)
DigitsValue(s) ==
    IF s = <<>> THEN 0
    ELSE 10 * DigitsValue(SubSeq(s, 1, Len(s) - 1)) + DigitVal(s[Len(s)])

\* float(g) for a text g of digits and dots: a value, or ValueError when g
\* holds no digit or more than one dot
Float(g) ==
    LET dots == SelectSeq(g, IsDot)
        digs == SelectSeq(g, IsDigit)
        dot  == FirstIn(g, 1, {"."})
        frac == IF dot = 0 THEN 0 ELSE Len(g) - dot
    IN  IF Len(dots) > 1 \/ Len(digs) = 0
        THEN [status |-> "raise", value |-> Str("ValueError")]
        ELSE [status |-> "ok", value |-> Rat(DigitsValue(digs), Pow10(frac))]

NumChars == Digits \cup {"."}

norm_price(s) ==
    IF s = None \/ s = <<>> THEN [status |-> "ok", value |-> None]
    ELSE
      LET t == LowerText(StripSeparators(s))
          i == FirstIn(t, 1, NumChars)
      IN  IF i = 0 THEN [status |-> "ok", value |-> None]
          ELSE
            LET j   == RunEnd(t, i, NumChars)
                x   == Float(SubSeq(t, i, j))
                suf == IF j + 1 <= Len(t) /\ t[j + 1] \in {"m", "k"}
                       THEN t[j + 1] ELSE ""
                mul == CASE suf = "m" -> 1000000 [] suf = "k" -> 1000
                         [] OTHER -> 1
            IN  IF x.status = "raise" THEN x
                ELSE [status |-> "ok", value |-> RMul(x.value, Num(mul))]

PriceChars == Digits \cup {",", "."}

Whitespace == {" "}

\* where the group of AUD?\$?\s?([0-9,\.]+[mk]?) starts when the pattern is
\* tried at index i of s (case-insensitively), or 0 when it does not match
GroupStartAt(s, i) ==
    IF i + 1 <= Len(s) /\ LowerChar(s[i]) = "a" /\ LowerChar(s[i + 1]) = "u"
    THEN LET p1 == IF i + 2 <= Len(s) /\ LowerChar(s[i + 2]) = "d"
                   THEN i + 3 ELSE i + 2
             p2 == IF p1 <= Len(s) /\ s[p1] = "$" THEN p1 + 1 ELSE p1
             p3 == IF p2 <= Len(s) /\ s[p2] \in Whitespace THEN p2 + 1 ELSE p2
         IN  IF p3 <= Len(s) /\ s[p3] \in PriceChars THEN p3 ELSE 0
    ELSE 0

\* re.search: the leftmost index >= i at which the pattern matches, as the
\* pair <<start of group 1, end of group 1>>, or <<0, 0>>
RECURSIVE SearchPrice(_, _)
SearchPrice(s, i) ==
    IF i > Len(s) THEN <<0, 0>>
    ELSE LET p == GroupStartAt(s, i)
         IN  IF p = 0 THEN SearchPrice(s, i + 1)
             ELSE LET q == RunEnd(s, p, PriceChars)
                  IN  IF q + 1 <= Len(s) /\ LowerChar(s[q + 1]) \in {"m", "k"}
                      THEN <<p, q + 1>> ELSE <<p, q>>

\* lines 63-67 of normalize_hit: the asking price parsed from snippet and title
hit_price(snippet, title) ==
    LET s == snippet \o <<" ">> \o title
        m == SearchPrice(s, 1)
    IN  IF m[1] = 0 THEN [status |-> "ok", value |-> None]
        ELSE norm_price(SubSeq(s, m[1], m[2]))

\* str.strip()
RECURSIVE Strip(_)
Strip(s) ==
    IF s = <<>> THEN s
    ELSE IF s[1] \in Whitespace THEN Strip(Tail(s))
    ELSE IF s[Len(s)] \in Whitespace THEN Strip(SubSeq(s, 1, Len(s) - 1))
    ELSE s

\* hash(link) of one process: some fixed integer per link
HashOf(link) ==
    CASE link = None      -> 1234567
      [] link = Str("")   -> 0
      [] link = Str("a")  -> -1234567890
      [] OTHER            -> 2001002003

IdModulus == 10000000

\* date.isoformat() of the day numbered day
IsoDate(day) == <<"iso", day>>

\* datetime.now(timezone.utc).date()
UtcDate(t) == t \div TicksPerDay

\* LocalDate were the time of day kept (datetime.now() without .date())
LocalDate_NoDate(t, offset) == t + offset

\* datetime.now().date()

LocalDate(t, offset) == (t + offset) \div TicksPerDay

normalize_hit(hit, source, t) ==
    LET link    == Get(hit, "link")
        title   == Strip(GetD(hit, "title", <<>>))
        snippet == GetD(hit, "snippet", <<>>)
        price   == hit_price(snippet, title)
    IN  IF price.status = "raise" THEN price
        ELSE [status |-> "ok",
              value  |->
                [id |-> <<source.name, Abs(HashOf(link)) % IdModulus>>,
                 title |-> title,
                 category |-> GetD(source, "category", Str("Unknown")),
                 source |-> source.name,
                 url |-> link,
                 asking_price_aud |-> price.value,
                 revenue_aud |-> None,
                 ebitda_aud |-> None,
                 location |-> GetD(source, "region", Str("AU")),
                 lat |-> None,
                 lon |-> None,
                 ownership |-> GetD(source, "ownership", Str("Unknown")),
                 days_on_market |-> 0,
                 date_listed |-> IsoDate(UtcDate(t)),
                 notes |-> snippet,
                 contact |-> None]]

(***************************************************************************)
(* De-duplication (run, lines 96-100)                                      *)
(***************************************************************************)
\* DictSet were the first deal of a url kept (uniq.setdefault)
DictSet_FirstWins(uniq, d) ==
    IF \E i \in 1..Len(uniq) : uniq[i].url = d.url
    THEN uniq
    ELSE Append(uniq, d)

IsOtherUrl(uniq, d, i) == uniq[i].url # d.url

\* DictSet were a key set again moved to the end (del uniq[k] before the set)
DictSet_MoveToEnd(uniq, d) ==
    LET keep == {i \in 1..Len(uniq) : IsOtherUrl(uniq, d, i)}
        nth(k) == CHOOSE i \in keep : Cardinality({j \in keep : j < i}) = k - 1
    IN  Append([k \in 1..Cardinality(keep) |-> uniq[nth(k)]], d)

\* uniq[d["url"]] = d on an insertion-ordered dict, kept as the sequence of
\* its values: a key already present keeps its place and takes the new value
DictSet(uniq, d) ==
    IF \E i \in 1..Len(uniq) : uniq[i].url = d.url
    THEN [i \in 1..Len(uniq) |-> IF uniq[i].url = d.url THEN d ELSE uniq[i]]
    ELSE Append(uniq, d)

RECURSIVE DedupFrom(_, _)
DedupFrom(uniq, ds) ==
    IF ds = <<>> THEN uniq ELSE DedupFrom(DictSet(uniq, Head(ds)), Tail(ds))

\* Dedupe were the loop to start at the second deal (for d in deals[1:])
Dedupe_SkipFirst(ds) == IF ds = <<>> THEN <<>> ELSE DedupFrom(<<>>, Tail(ds))

\* uniq = {}; for d in deals: uniq[d["url"]] = d; list(uniq.values())
Dedupe(ds) == DedupFrom(<<>>, ds)

(***************************************************************************)
(* Scoring (score_deals)                                                   *)
(***************************************************************************)
\* km(a, b, c, d): the haversine distance in km, to two decimals, between
\* the points in use: (-27.5, 153.0), (-27.5, 151.2), (-33.9, 153.0) and
\* (-33.9, 151.2), the first of them being one of the two
km(a, b, c, d) ==
    IF a = c /\ b = d THEN Num(0)
    ELSE IF a = c THEN Rat(17753, 100)
    ELSE IF b = d THEN Rat(71165, 100)
    ELSE Rat(73212, 100)

\* str.lower() on the ownership strings in use
LowerStr(s) ==
    CASE s = "Freehold" -> "freehold"
      [] s = "FREEHOLD" -> "freehold"
      [] s = "Leasehold" -> "leasehold"
      [] s = "Unknown" -> "unknown"
      [] OTHER -> s

Raise(e) == [status |-> "raise", value |-> Str(e)]

Ok(v) == [status |-> "ok", value |-> v]

\* line 123
Margin(ebitda, rev) == IF RLess(Num(0), rev) THEN RDiv(ebitda, rev) ELSE Num(0)

\* Pte were the multiple of an unknown ebitda 0 instead of the sentinel
Pte_ZeroSentinel(price, ebitda) ==
    IF RLess(Num(0), ebitda) THEN RDiv(price, ebitda) ELSE Num(0)

\* line 124
Pte(price, ebitda) ==
    IF RLess(Num(0), ebitda) THEN RDiv(price, ebitda) ELSE Num(99)

\* lines 130-133: the days since date_listed, 30 when it cannot be parsed
Days(d, today) ==
    IF "date_listed" \in DOMAIN d /\ d.date_listed[1] = "iso"
    THEN today - d.date_listed[2]
    ELSE 30

WeightKeys ==
    <<"ebitda_margin", "price_to_ebitda", "recency", "ownership_freehold",
      "category_match", "proximity_se_qld">>

\* lines 149-156: the weighted sum, the features in the order of WeightKeys
RECURSIVE WeightedSum(_, _, _)
WeightedSum(w, fs, i) ==
    IF i > Len(WeightKeys) THEN Num(0)
    ELSE RAdd(RMul(w[WeightKeys[i]], fs[i]), WeightedSum(w, fs, i + 1))

\* lines 119-166: one turn of the loop, the scored copy of d or the exception
score_one(d, c, today) ==
    LET rev      == OrZero(Get(d, "revenue_aud"))
        ebitda   == OrZero(Get(d, "ebitda_aud"))
        price    == OrZero(Get(d, "asking_price_aud"))
        margin   == Margin(ebitda, rev)
        pte      == Pte(price, ebitda)
        f_margin == RMin(RMax(RDiv(margin, Rat(3, 10)), Num(0)), Num(1))
        f_pte    == RSub(Num(1), RMin(RDiv(pte, Num(5)), Num(1)))
        days     == Days(d, today)
        f_recent == RMax(Num(0), RSub(Num(1), Rat(days, 30)))
        own      == GetD(d, "ownership", Str(""))
        f_free   == IF LowerStr(own[2]) = "freehold" THEN Num(1) ELSE Rat(3, 10)
        f_cat    == IF Get(d, "category") \in c.target_categories
                    THEN Num(1) ELSE Rat(1, 2)
        known    == Get(d, "lat") # None /\ Get(d, "lon") # None
        dist     == km(c.hq_lat, c.hq_lon, d.lat, d.lon)
        maxd     == c.max_distance_km_for_full_points
        f_dist   == IF known
                    THEN RMax(Num(0), RSub(Num(1), RDiv(dist, maxd)))
                    ELSE Rat(1, 2)
        fs       == <<f_margin, f_pte, f_recent, f_free, f_cat, f_dist>>
        w        == c.weights
    IN  IF own = None THEN Raise("AttributeError")
        ELSE IF known /\ maxd = Num(0) THEN Raise("ZeroDivisionError")
        ELSE IF \E i \in 1..Len(WeightKeys) : WeightKeys[i] \notin DOMAIN w
        THEN Raise("KeyError")
        ELSE Ok([score |-> Round3(WeightedSum(w, fs, 1)),
                 features |-> [margin |-> Round3(f_margin),
                               price_to_ebitda |-> Round3(f_pte),
                               recency |-> Round3(f_recent),
                               freehold |-> Thousandths(f_free),
                               category |-> Thousandths(f_cat),
                               proximity |-> Round3(f_dist)]] @@ d)

\* score_each were a deal without a date_listed skipped (continue)
RECURSIVE score_each_SkipUndated(_, _, _, _)
score_each_SkipUndated(acc, ds, c, today) ==
    IF ds = <<>> THEN Ok(acc)
    ELSE IF "date_listed" \notin DOMAIN Head(ds)
    THEN score_each_SkipUndated(acc, Tail(ds), c, today)
    ELSE LET r == score_one(Head(ds), c, today)
         IN  IF r.status = "raise" THEN r
             ELSE score_each_SkipUndated(Append(acc, r.value), Tail(ds), c, today)

\* lines 117-167: the loop; the first exception ends it
RECURSIVE score_each(_, _, _, _)
score_each(acc, ds, c, today) ==
    IF ds = <<>> THEN Ok(acc)
    ELSE LET r == score_one(Head(ds), c, today)
         IN  IF r.status = "raise" THEN r
             ELSE score_each(Append(acc, r.value), Tail(ds), c, today)

\* InsertDesc were x put ahead of the elements that score the same (the
\* ascending sort reversed)
InsertDesc_AheadOfEquals(sorted, x) ==
    LET ahead == {i \in 1..Len(sorted) : sorted[i].score > x.score}
        k     == Cardinality(ahead)
    IN  SubSeq(sorted, 1, k) \o <<x>> \o SubSeq(sorted, k + 1, Len(sorted))

\* list.sort keeps equal keys in their order, with reverse=True too: x goes
\* behind every element whose score is at least its own
InsertDesc(sorted, x) ==
    LET ahead == {i \in 1..Len(sorted) : sorted[i].score >= x.score}
        k     == Cardinality(ahead)
    IN  SubSeq(sorted, 1, k) \o <<x>> \o SubSeq(sorted, k + 1, Len(sorted))

RECURSIVE SortFrom(_, _)
SortFrom(sorted, xs) ==
    IF xs = <<>> THEN sorted ELSE SortFrom(InsertDesc(sorted, Head(xs)), Tail(xs))

\* out.sort(key=lambda x: x["score"], reverse=True)
SortByScoreDesc(xs) == SortFrom(<<>>, xs)

ConfigKeys ==
    <<"weights", "target_categories", "hq_lat", "hq_lon",
      "max_distance_km_for_full_points">>

score_deals(ds, c, today) ==
    IF \E i \in 1..Len(ConfigKeys) : ConfigKeys[i] \notin DOMAIN c
    THEN Raise("KeyError")
    ELSE LET r == score_each(<<>>, ds, c, today)
         IN  IF r.status = "raise" THEN r ELSE Ok(SortByScoreDesc(r.value))

(***************************************************************************)
(* Inputs                                                                  *)
(***************************************************************************)
RECURSIVE SeqsUpTo(_, _)
SeqsUpTo(S, n) ==
    IF n = 0 THEN {<<>>}
    ELSE LET shorter == SeqsUpTo(S, n - 1)
         IN  shorter \cup {Append(q, x) : q \in {r \in shorter : Len(r) = n - 1}, x \in S}

Alphabet == {"0", "1", ".", ",", " ", "k", "M", "A", "U", "D", "$"}

Texts == SeqsUpTo(Alphabet, MaxLen)

\* sites.yaml: the second site leaves category, region and ownership out
Sites ==
    <<[name |-> "bizbuysell", category |-> Str("Cafe"), region |-> Str("QLD"),
       ownership |-> Str("Freehold"), queries |-> <<"q1", "q2">>],
      [name |-> "seek", queries |-> <<"q3">>]>>

Links == {None, Str(""), Str("a")}

Snippets == {<<"A", "U", "$", "2", "k">>, <<"A", "U", ".">>}

\* organic_results entries
Hits == [link : Links, title : {<<" ", "D", " ">>}, snippet : Snippets]

\* the local time zone of the host, as an offset from UTC in ticks
Offsets == {-1, 0, 1}

Weights(a, b, c, d, e, f) ==
    [ebitda_margin |-> a, price_to_ebitda |-> b, recency |-> c,
     ownership_freehold |-> d, category_match |-> e, proximity_se_qld |-> f]

HqLat == Rat(-275, 10)

HqLon == Num(153)

Config(w) ==
    [weights |-> w, target_categories |-> {Str("Cafe")}, hq_lat |-> HqLat,
     hq_lon |-> HqLon, max_distance_km_for_full_points |-> Num(500)]

Without(f, k) == [x \in DOMAIN f \ {k} |-> f[x]]

CompleteConfigs ==
    {Config(Weights(Rat(1, 4), Rat(1, 4), Rat(1, 5), Rat(1, 10), Rat(1, 10), Rat(1, 10))),
     Config(Weights(Num(0), Num(0), Num(0), Num(0), Num(0), Num(0)))}

FullConfig == Config(Weights(Rat(1, 4), Rat(1, 4), Rat(1, 5), Rat(1, 10), Rat(1, 10), Rat(1, 10)))

\* a configuration that lacks one required field
IncompleteConfigs ==
    {Without(FullConfig, ConfigKeys[i]) : i \in 1..Len(ConfigKeys)}
    \cup {[FullConfig EXCEPT !.weights = Without(@, WeightKeys[i])] :
            i \in 1..Len(WeightKeys)}

IsComplete(c) ==
    /\ \A i \in 1..Len(ConfigKeys) : ConfigKeys[i] \in DOMAIN c
    /\ \A i \in 1..Len(WeightKeys) : WeightKeys[i] \in DOMAIN c.weights

Absent == <<"absent">>

\* the dict with the keys of f whose value is not Absent
Dict(f) == [k \in {x \in DOMAIN f : f[x] # Absent} |-> f[k]]

Optional(S) == {Absent, None} \cup S

\* deals handed to score_deals one at a time: every optional field absent,
\* null or set, the amounts of either sign
SingleDeals ==
    {Dict([url |-> Str("a"), category |-> Str("Cafe"), ownership |-> Str("Leasehold"),
           asking_price_aud |-> p, revenue_aud |-> r, ebitda_aud |-> e,
           lat |-> la, lon |-> lo, date_listed |-> dl]) :
       p \in Optional({Num(-2), Num(2), Num(20)}),
       r \in Optional({Num(-4), Num(0), Num(10)}),
       e \in Optional({Num(-1), Num(0), Num(3)}),
       la \in Optional({HqLat}),
       lo \in Optional({HqLon, Rat(1512, 10)}),
       dl \in {Absent, Str("soon"), IsoDate(1), IsoDate(-15), IsoDate(-40)}}

\* deals handed to score_deals in lists: several of them score alike
ListDeals ==
    {Dict([url |-> u, category |-> Str("Cafe"), ownership |-> o,
           asking_price_aud |-> Num(2), revenue_aud |-> Num(20), ebitda_aud |-> Num(3),
           lat |-> None, lon |-> None, date_listed |-> dl]) :
       u \in {Str("a"), Str("b")},
       o \in {Str("FREEHOLD"), Str("Leasehold")},
       dl \in {IsoDate(0)}}
    \cup {Dict([url |-> Str("c"), category |-> Str("Pub"),
                asking_price_aud |-> Absent, revenue_aud |-> Absent,
                ebitda_aud |-> Absent, lat |-> Absent, lon |-> Absent,
                ownership |-> Absent, date_listed |-> Absent])}

NoCall == [at |-> -1, result |-> Raise("not called")]

(***************************************************************************)
(* The price parser called on a text                                       *)
(***************************************************************************)
InitPrice ==
    /\ pc = "parse"
    /\ text \in Texts
    /\ parsed = Ok(None)
    /\ now = 0 /\ tz = 0 /\ si = 1
    /\ raw = <<>> /\ deals = <<>>
    /\ cfg = FullConfig
    /\ out = Ok(<<>>) /\ outAt = -1 /\ first = NoCall

CallNormPrice ==
    /\ pc = "parse"
    /\ parsed' = norm_price(text)
    /\ pc' = "norm_price"
    /\ UNCHANGED <<now, tz, text, si, raw, deals, cfg, out, outAt, first>>

\* the price lines of normalize_hit on a hit whose snippet is the text
CallHitPrice ==
    /\ pc = "parse"
    /\ parsed' = hit_price(text, <<>>)
    /\ pc' = "hit_price"
    /\ UNCHANGED <<now, tz, text, si, raw, deals, cfg, out, outAt, first>>

NextPrice == CallNormPrice \/ CallHitPrice

SpecPrice == InitPrice /\ [][NextPrice]_vars

(***************************************************************************)
(* The clock                                                               *)
(***************************************************************************)
Tick ==
    /\ now < MaxTicks
    /\ pc \in {"search", "deduped", "call", "returned", "raised"}
    /\ now' = now + 1
    /\ UNCHANGED <<pc, tz, text, parsed, si, raw, deals, cfg, out, outAt, first>>

(***************************************************************************)
(* run()                                                                   *)
(***************************************************************************)
Init ==
    /\ pc = "search"
    /\ now = 0
    /\ tz \in Offsets
    /\ text = <<>> /\ parsed = Ok(None)
    /\ si = 1
    /\ raw = <<>> /\ deals = <<>>
    /\ cfg \in CompleteConfigs
    /\ out = Ok(<<>>) /\ outAt = -1 /\ first = NoCall

\* lines 92-94: one result of a query of the current site is normalised and
\* appended; an exception of normalize_hit ends the run
Search ==
    /\ pc = "search"
    /\ si <= Len(Sites)
    /\ Len(deals) < MaxHits
    /\ \E hit \in Hits :
         LET r == normalize_hit(hit, Sites[si], now)
         IN  IF r.status = "raise"
             THEN /\ pc' = "crashed"
                  /\ out' = r
                  /\ UNCHANGED deals
             ELSE /\ deals' = Append(deals, r.value)
                  /\ UNCHANGED <<pc, out>>
    /\ UNCHANGED <<now, tz, text, parsed, si, raw, cfg, outAt, first>>

\* line 90: the loop goes on to the next site
NextSite ==
    /\ pc = "search"
    /\ si <= Len(Sites)
    /\ si' = si + 1
    /\ UNCHANGED <<pc, now, tz, text, parsed, raw, deals, cfg, out, outAt, first>>

\* lines 96-100
Dedup ==
    /\ pc = "search"
    /\ si > Len(Sites)
    /\ raw' = deals
    /\ deals' = Dedupe(deals)
    /\ pc' = "deduped"
    /\ UNCHANGED <<now, tz, text, parsed, si, cfg, out, outAt, first>>

\* lines 103-104
RunScore ==
    /\ pc = "deduped"
    /\ LET r == score_deals(deals, cfg, LocalDate(now, tz))
       IN  /\ out' = r
           /\ outAt' = now
           /\ IF r.status = "raise"
              THEN pc' = "crashed" /\ UNCHANGED deals
              ELSE pc' = "scored" /\ deals' = r.value
    /\ UNCHANGED <<now, tz, text, parsed, si, raw, cfg, first>>

\* lines 106-109
Write ==
    /\ pc = "scored"
    /\ pc' = "written"
    /\ UNCHANGED <<now, tz, text, parsed, si, raw, deals, cfg, out, outAt, first>>

Next == Tick \/ Search \/ NextSite \/ Dedup \/ RunScore \/ Write

Spec == Init /\ [][Next]_vars

(***************************************************************************)
(* score_deals called on a list of deals                                   *)
(***************************************************************************)
InitScore ==
    /\ pc = "call"
    /\ now = 0 /\ tz = 0
    /\ text = <<>> /\ parsed = Ok(None)
    /\ si = 1 /\ raw = <<>>
    /\ \/ /\ deals \in {<<d>> : d \in SingleDeals}
          /\ cfg = FullConfig
       \/ /\ deals \in SeqsUpTo(ListDeals, MaxDeals)
          /\ cfg \in CompleteConfigs \cup IncompleteConfigs
    /\ out = Ok(<<>>) /\ outAt = -1 /\ first = NoCall

\* one invocation; the caller's list is left as it was (line 157 copies)
CallScore ==
    /\ pc \in {"call", "returned", "raised"}
    /\ LET r == score_deals(deals, cfg, LocalDate(now, tz))
       IN  /\ out' = r
           /\ outAt' = now
           /\ pc' = IF r.status = "raise" THEN "raised" ELSE "returned"
           /\ first' = IF first = NoCall THEN [at |-> now, result |-> r] ELSE first
    /\ UNCHANGED <<now, tz, text, parsed, si, raw, deals, cfg>>

NextScore == Tick \/ CallScore

SpecScore == InitScore /\ [][NextScore]_vars

(***************************************************************************)
(* Properties                                                              *)
(***************************************************************************)
Urls(ds) == {ds[i].url : i \in 1..Len(ds)}

FirstIdx(ds, u) == CHOOSE i \in 1..Len(ds) :
                     ds[i].url = u /\ \A k \in 1..(i - 1) : ds[k].url # u

LastIdx(ds, u) == CHOOSE i \in 1..Len(ds) :
                    ds[i].url = u /\ \A k \in (i + 1)..Len(ds) : ds[k].url # u

\* a scored deal without the two fields the scorer adds
StripDerived(o) == [k \in DOMAIN o \ {"score", "features"} |-> o[k]]

IsScored(o) == {"score", "features"} \subseteq DOMAIN o

FeatureNames ==
    {"margin", "price_to_ebitda", "recency", "freehold", "category", "proximity"}

\* C1: after the de-duplication the list holds exactly one deal for each url
\* of the collected list (None and "" are urls like any other), and it is
\* the last deal collected with that url.
C1_LastWins ==
    pc = "deduped" =>
      /\ \A u \in Urls(raw) :
           Cardinality({j \in 1..Len(deals) : deals[j].url = u}) = 1
      /\ \A j \in 1..Len(deals) :
           /\ deals[j].url \in Urls(raw)
           /\ deals[j] = raw[LastIdx(raw, deals[j].url)]

\* a null url, an empty url, and a url collected twice with different deals
C1_Witness ==
    /\ pc = "deduped"
    /\ {None, Str("")} \subseteq Urls(raw)
    /\ \E i, k \in 1..Len(raw) : i < k /\ raw[i].url = raw[k].url /\ raw[i] # raw[k]

\* C9: de-duplicating the de-duplicated list changes nothing.
C9_Idempotent == pc = "deduped" => Dedupe(deals) = deals

\* the first pass dropped a deal and left more than one
C9_Witness == pc = "deduped" /\ Len(deals) >= 2 /\ Len(raw) > Len(deals)

\* C10: the de-duplicated list is in the order in which the urls were first
\* collected and holds the deal collected last for each; in the ranked list
\* deals of equal score are in the order in which their urls were first
\* collected.
C10_FirstSeenOrder ==
    /\ pc = "deduped" =>
         \A i, j \in 1..Len(deals) :
           i < j => /\ FirstIdx(raw, deals[i].url) < FirstIdx(raw, deals[j].url)
                    /\ deals[i] = raw[LastIdx(raw, deals[i].url)]
    /\ pc \in {"scored", "written"} =>
         \A i, j \in 1..Len(deals) :
           (i < j /\ deals[i].score = deals[j].score)
             => FirstIdx(raw, deals[i].url) < FirstIdx(raw, deals[j].url)

\* two ranked deals of equal score, the one ahead observed last after the
\* other one was
C10_Witness ==
    /\ pc = "scored"
    /\ \E i, j \in 1..Len(deals) :
         /\ i < j
         /\ deals[i].score = deals[j].score
         /\ LastIdx(raw, deals[i].url) > LastIdx(raw, deals[j].url)
         /\ StripDerived(deals[i]) # raw[FirstIdx(raw, deals[i].url)]

\* C2: every feature of every scored deal of a run lies in [0, 1] (0..1000
\* thousandths).
C2_FeatureBounds ==
    pc \in {"scored", "written"} =>
      \A i \in 1..Len(deals) : \A f \in FeatureNames :
        deals[i].features[f] >= 0 /\ deals[i].features[f] <= 1000

\* C3: the list score_deals returns is in descending order of score, and
\* deals of equal score are in the order they had in the input.
C3_StableDescending ==
    pc = "returned" =>
      LET o == out.value
          n == Len(o)
      IN  /\ \A i, j \in 1..n : i < j => o[i].score >= o[j].score
          /\ n = Len(deals)
          /\ \E p \in Permutations(1..n) :
               /\ \A i \in 1..n : StripDerived(o[i]) = deals[p[i]]
               /\ \A i, j \in 1..n :
                    (i < j /\ o[i].score = o[j].score) => p[i] < p[j]

\* three deals returned, two different ones with the same score, and the
\* first returned is not the first of the input
C3_Witness ==
    /\ pc = "returned"
    /\ Len(out.value) >= 3
    /\ StripDerived(out.value[1]) # deals[1]
    /\ \E i, j \in 1..Len(out.value) :
         /\ i < j
         /\ out.value[i].score = out.value[j].score
         /\ out.value[i] # out.value[j]

\* C4: score_deals called with a configuration that lacks a required field
\* raises, whatever the list of deals.
C4_IncompleteConfigFatal ==
    (pc \in {"returned", "raised"} /\ ~IsComplete(cfg)) => pc = "raised"

HasDigit(s) == \E i \in 1..Len(s) : s[i] \in Digits

\* C5: norm_price and the price lines of normalize_hit never raise, and
\* norm_price returns None exactly for a text without a number.
C5_NeverRaises ==
    /\ pc \in {"norm_price", "hit_price"} => parsed.status = "ok"
    /\ pc = "norm_price" => (parsed.value = None <=> ~HasDigit(text))

NotPositive(o, k) == k \notin DOMAIN o \/ o[k] = None \/ o[k][2] <= 0

Missing(o, k) == k \notin DOMAIN o \/ o[k] = None

\* C6: with a complete configuration score_deals returns whichever optional
\* fields are absent or null; revenue absent or not positive gives margin 0,
\* ebitda absent or not positive gives price_to_ebitda 0, lat or lon absent
\* gives proximity 0.5.
C6_OptionalFallbacks ==
    (pc \in {"returned", "raised"} /\ IsComplete(cfg)) =>
      /\ pc = "returned"
      /\ \A i \in 1..Len(out.value) :
           LET o == out.value[i]
           IN  /\ NotPositive(o, "revenue_aud") => o.features.margin = 0
               /\ NotPositive(o, "ebitda_aud") => o.features.price_to_ebitda = 0
               /\ (Missing(o, "lat") \/ Missing(o, "lon"))
                    => o.features.proximity = 500

\* a deal scored that has none of the five optional keys
C6_Witness ==
    /\ pc = "returned"
    /\ Len(out.value) = 1
    /\ DOMAIN out.value[1] \cap
         {"asking_price_aud", "revenue_aud", "ebitda_aud", "lat", "lon"} = {}

====
